---- MODULE Spec2Model ----
(***************************************************************************)
(* Keystroke trainer (src/main.go): the pattern-matching and session state *)
(* machine of App, the statistics aggregate AllStats, and the deferred     *)
(* auto-advance goroutines started by finishPattern.                       *)
(*                                                                         *)
(* Go strings are modelled as sequences of one-character strings, so that  *)
(* strings.Join, strings.HasPrefix, len and slicing are computed on        *)
(* characters exactly as the code computes them (ASCII only: one byte per  *)
(* character).  time.Time is a natural number, 0 being the zero Time.      *)
(***************************************************************************)
EXTENDS Integers, Sequences, FiniteSets, TLC

VARIABLES
    app,        \* the App struct (main.go 300-334) and the status label it shows
    stats,      \* the AllStats aggregate app.stats points to (main.go 195-201)
    disk,       \* the file keystroke_stats.json
    pending,    \* deferred advance goroutines in flight, each tagged with the
                \* number of the session whose completion started it
    now,        \* the wall clock read by time.Now()
    hist,       \* history of the current session (observation only)
    calls       \* log of the direct calls made by the statistics harnesses

vars == <<app, stats, disk, pending, now, hist, calls>>

----------------------------------------------------------------------------
(* Bounds of the model *)

MaxTime == 2
MaxSessions == 2
MaxRecordedMistakes == 1
MaxAttempts == 2
MaxPending == 1

----------------------------------------------------------------------------
(* Strings *)

\* strings.HasPrefix(s, prefix)
HasPrefix(s, prefix) ==
    /\ Len(prefix) <= Len(s)
    /\ SubSeq(s, 1, Len(prefix)) = prefix

\* strings.Join(elems, "")
RECURSIVE Join(_)
Join(elems) ==
    IF elems = << >> THEN << >> ELSE Head(elems) \o Join(Tail(elems))

\* s[pos:] with a 0-based byte offset
From(s, pos) == SubSeq(s, pos + 1, Len(s))

MinOf(S) == CHOOSE x \in S : \A y \in S : x <= y

----------------------------------------------------------------------------
(* Tokenizer *)

\* variant: the two-character function keys are listed before F10, F11, F12
tokensShortFirst ==
    << <<"S","L","C">>, <<"S","R","C">>,
       <<"L","C">>, <<"R","C">>, <<"M","C">>,
       <<"F","1">>, <<"F","2">>, <<"F","3">>, <<"F","4">>, <<"F","5">>,
       <<"F","6">>, <<"F","7">>, <<"F","8">>, <<"F","9">>,
       <<"F","1","0">>, <<"F","1","1">>, <<"F","1","2">> >>

\* the ordered token list of getExpectedKey
tokens ==
    << <<"S","L","C">>, <<"S","R","C">>,
       <<"F","1","0">>, <<"F","1","1">>, <<"F","1","2">>,
       <<"L","C">>, <<"R","C">>, <<"M","C">>,
       <<"F","1">>, <<"F","2">>, <<"F","3">>, <<"F","4">>, <<"F","5">>,
       <<"F","6">>, <<"F","7">>, <<"F","8">>, <<"F","9">> >>

Unknown == <<"?">>

\* one turn of the scan loop at a position whose remaining text is rest: the
\* first token of the list that is a prefix of rest, else the single character
scanToken(rest) ==
    LET hits == {i \in 1..Len(tokens) : HasPrefix(rest, tokens[i])}
    IN  IF hits = {} THEN <<Head(rest)>> ELSE tokens[MinOf(hits)]

RECURSIVE scanFrom(_, _, _)
scanFrom(pattern, pos, charPos) ==
    IF pos >= Len(pattern) THEN Unknown
    ELSE LET tok == scanToken(From(pattern, pos))
         IN  IF pos = charPos THEN tok
             ELSE scanFrom(pattern, pos + Len(tok), charPos)

getExpectedKey(pattern, charPos) == scanFrom(pattern, 0, charPos)

\* the token sequence the same scan splits a pattern string into
RECURSIVE Tokenize(_)
Tokenize(pattern) ==
    IF pattern = << >> THEN << >>
    ELSE LET tok == scanToken(pattern)
         IN  <<tok>> \o Tokenize(From(pattern, Len(tok)))

----------------------------------------------------------------------------
(* Pattern source *)

NoPattern == [Name |-> << >>, Pattern |-> << >>]

Attack == [Name |-> <<"A">>, Pattern |-> <<"1","a","L","C">>]
Click == [Name |-> <<"B">>, Pattern |-> <<"L","C","a">>]

\* the lists loadPatterns can return in this model
PatternLists == { <<Attack, Click>> }

\* the orders rand.Shuffle can leave a copy of the list in
Shuffles(list) ==
    { q \in [1..Len(list) -> {list[i] : i \in 1..Len(list)}] :
        \A i \in 1..Len(list) :
            Cardinality({j \in 1..Len(list) : q[j] = list[i]})
              = Cardinality({j \in 1..Len(list) : list[j] = list[i]}) }

----------------------------------------------------------------------------
(* Statistics *)

MaxMistakes == 100

NoStats ==
    [PatternStats |-> << >>, Sessions |-> << >>, TotalSessions |-> 0,
     TotalTrainTime |-> 0, LastUpdated |-> 0]

NewPatternStats(pattern) ==
    [Pattern |-> pattern.Pattern, Name |-> pattern.Name,
     TotalAttempts |-> 0, PerfectCount |-> 0, TotalResets |-> 0,
     BestTime |-> 0, TotalTime |-> 0, CurrentStreak |-> 0, BestStreak |-> 0,
     LastPracticed |-> 0, Mistakes |-> << >>]

HasStats(st, p) == p \in DOMAIN st.PatternStats

\* the aggregate after getPatternStats: the row exists afterwards
getPatternStats(st, pattern) ==
    IF HasStats(st, pattern.Pattern) THEN st
    ELSE [st EXCEPT !.PatternStats =
              (pattern.Pattern :> NewPatternStats(pattern)) @@ @]

\* variant: an attempt with resets leaves the streak as it was
streakKept(streak, resets) == IF resets = 0 THEN streak + 1 ELSE streak

streakAfter(streak, resets) == IF resets = 0 THEN streak + 1 ELSE 0

bestStreakAfter(best, current) == IF current > best THEN current ELSE best

bestTimeAfter(best, elapsed) ==
    IF best = 0 \/ elapsed < best THEN elapsed ELSE best

recordAttempt(st, pattern, elapsed, resets) ==
    LET s1 == getPatternStats(st, pattern)
        ps == s1.PatternStats[pattern.Pattern]
        p1 == [ps EXCEPT !.TotalAttempts = @ + 1,
                         !.TotalTime = @ + elapsed,
                         !.TotalResets = @ + resets,
                         !.LastPracticed = now]
        cur == streakAfter(p1.CurrentStreak, resets)
        p2 == IF resets = 0
              THEN [p1 EXCEPT !.PerfectCount = @ + 1,
                              !.CurrentStreak = cur,
                              !.BestStreak = bestStreakAfter(@, cur),
                              !.BestTime = bestTimeAfter(@, elapsed)]
              ELSE [p1 EXCEPT !.CurrentStreak = cur]
    IN  [s1 EXCEPT !.PatternStats[pattern.Pattern] = p2]

\* variant: the oldest entries are kept instead of the most recent
keepOldest(list) ==
    IF Len(list) > MaxMistakes THEN SubSeq(list, 1, MaxMistakes) ELSE list

\* ps.Mistakes[len(ps.Mistakes)-100:] once the list is longer than 100
truncateMistakes(list) ==
    IF Len(list) > MaxMistakes
    THEN SubSeq(list, Len(list) - MaxMistakes + 1, Len(list))
    ELSE list

recordMistake(st, pattern, position, expected, actual) ==
    LET s1 == getPatternStats(st, pattern)
        mistake == [Position |-> position, Expected |-> expected,
                    Actual |-> actual, Timestamp |-> now]
    IN  [s1 EXCEPT !.PatternStats[pattern.Pattern].Mistakes =
             truncateMistakes(Append(@, mistake))]

----------------------------------------------------------------------------
(* Persistence *)

NoFile == [kind |-> "missing", doc |-> NoStats]

SaveOutcomes == {"ok", "open_error", "write_error"}

\* os.WriteFile(statsFile, data, 0644): opens with O_TRUNC, then writes
WriteFile(old, data, outcome) ==
    CASE outcome = "ok" -> [kind |-> "document", doc |-> data]
      [] outcome = "open_error" -> old
      [] OTHER -> [kind |-> "partial", doc |-> NoStats]

\* a world is the part of the state the handlers change
World == [app |-> app, stats |-> stats, disk |-> disk, pending |-> pending,
          hist |-> hist]

save(w, outcome) ==
    LET st == [w.stats EXCEPT !.LastUpdated = now]
    IN  [w EXCEPT !.stats = st, !.disk = WriteFile(w.disk, st, outcome)]

\* variant: the record is appended but the train time is not added up
endSessionUntimed(w, startTime, total, perfect, completed, outcome) ==
    LET session == [StartTime |-> startTime, EndTime |-> now,
                    Duration |-> now - startTime, PatternsTotal |-> total,
                    PatternsPerfect |-> perfect, Completed |-> completed]
        st == [w.stats EXCEPT !.Sessions = Append(@, session),
                              !.TotalSessions = @ + 1]
    IN  save([w EXCEPT !.stats = st], outcome)

endSession(w, startTime, total, perfect, completed, outcome) ==
    LET session == [StartTime |-> startTime, EndTime |-> now,
                    Duration |-> now - startTime, PatternsTotal |-> total,
                    PatternsPerfect |-> perfect, Completed |-> completed]
        st == [w.stats EXCEPT !.Sessions = Append(@, session),
                              !.TotalSessions = @ + 1,
                              !.TotalTrainTime = @ + session.Duration]
    IN  save([w EXCEPT !.stats = st], outcome)

----------------------------------------------------------------------------
(* Session history (observation only): what happened since startSession *)

NoHistory == [session |-> 0, stopped |-> {}, log |-> << >>]

Activated(w) ==
    [ev |-> "activate", pat |-> w.app.currentPattern, resets |-> 0,
     queue |-> w.app.patternQueue]

Completing(w) ==
    [ev |-> "complete", pat |-> w.app.currentPattern,
     resets |-> w.app.resetCount, queue |-> w.app.patternQueue]

----------------------------------------------------------------------------
(* Session orchestration *)

sessionComplete(w, outcome) ==
    LET a == [w.app EXCEPT !.inSession = FALSE, !.isActive = FALSE,
                           !.statusLabel = "mastered"]
    IN  endSession([w EXCEPT !.app = a], a.sessionStart, a.sessionTotal,
                   a.sessionPerfect, TRUE, outcome)

\* app.patternQueue[0] and app.patternQueue[1:]
queueHead(queue) == Head(queue)
queueRest(queue) == Tail(queue)

nextPattern(w, outcome) ==
    IF ~w.app.inSession THEN w
    ELSE IF Len(w.app.patternQueue) = 0 THEN sessionComplete(w, outcome)
    ELSE LET a == [w.app EXCEPT
                     !.currentPattern = queueHead(w.app.patternQueue),
                     !.patternQueue = queueRest(@),
                     !.inputBuffer = << >>,
                     !.resetCount = 0,
                     !.isActive = TRUE,
                     !.startTime = 0,
                     !.statusLabel = ""]
             w1 == [w EXCEPT !.app = a]
         IN  [w1 EXCEPT !.hist.log = Append(@, Activated(w1))]

\* shuffled is the order shufflePatterns leaves the queue in
startSession(w, shuffled, outcome) ==
    LET a == [w.app EXCEPT !.patternQueue = shuffled,
                           !.currentIndex = 0,
                           !.inSession = TRUE,
                           !.sessionPerfect = 0,
                           !.sessionTotal = 0,
                           !.sessionStart = now]
        h == [w.hist EXCEPT !.session = @ + 1, !.log = << >>]
    IN  nextPattern([w EXCEPT !.app = a, !.hist = h], outcome)

\* variant: a stop counts the partial entry of the active pattern as an attempt
stopSessionRecording(w, outcome) ==
    LET a == [w.app EXCEPT !.inSession = FALSE, !.isActive = FALSE,
                           !.statusLabel = "ended"]
        h == [w.hist EXCEPT !.stopped = @ \cup {w.hist.session}]
        st == IF w.app.isActive
              THEN recordAttempt(w.stats, w.app.currentPattern,
                                 0, w.app.resetCount)
              ELSE w.stats
    IN  endSession([w EXCEPT !.app = a, !.hist = h, !.stats = st],
                   a.sessionStart, a.sessionTotal, a.sessionPerfect, FALSE,
                   outcome)

stopSession(w, outcome) ==
    LET a == [w.app EXCEPT !.inSession = FALSE, !.isActive = FALSE,
                           !.statusLabel = "ended"]
        h == [w.hist EXCEPT !.stopped = @ \cup {w.hist.session}]
    IN  endSession([w EXCEPT !.app = a, !.hist = h], a.sessionStart,
                   a.sessionTotal, a.sessionPerfect, FALSE, outcome)

----------------------------------------------------------------------------
(* Match engine *)

\* variant: the pattern is put back at the head of the queue
requeueFront(queue, pattern) == <<pattern>> \o queue

\* append(app.patternQueue, app.currentPattern)
requeue(queue, pattern) == Append(queue, pattern)

\* the "new best" test of finishPattern, made after recordAttempt
statusAfterPerfect(elapsed, bestTime) ==
    IF elapsed = bestTime THEN "newbest" ELSE "ok"

\* variant: every completion counts as perfect
perfectAlways(perfect, resets) == perfect + 1

perfectAfter(perfect, resets) == IF resets = 0 THEN perfect + 1 ELSE perfect

finishPattern(w, outcome) ==
    IF ~w.app.isActive THEN w
    ELSE LET cur == w.app.currentPattern
             elapsed == now - w.app.startTime
             resets == w.app.resetCount
             w1 == save([w EXCEPT !.stats =
                            recordAttempt(@, cur, elapsed, resets)], outcome)
             ps == w1.stats.PatternStats[cur.Pattern]
             a == [w.app EXCEPT
                     !.isActive = FALSE,
                     !.sessionTotal = @ + 1,
                     !.sessionPerfect = perfectAfter(@, resets),
                     !.patternQueue =
                         IF resets = 0 THEN @ ELSE requeue(@, cur),
                     !.statusLabel =
                         IF resets = 0
                         THEN statusAfterPerfect(elapsed, ps.BestTime)
                         ELSE "retry"]
         IN  [w1 EXCEPT !.app = a,
                        !.pending = Append(@, w.hist.session)]

\* position := len(testInput) - len(key)
mistakePosition(testInput, key) == Len(testInput) - Len(key)

\* strings.HasPrefix(app.currentPattern.Pattern, testInput)
matches(pattern, testInput) == HasPrefix(pattern, testInput)

\* variant: every accepted key stamps the start time afresh
startTimeRestamped(startTime) == now

\* if app.startTime.IsZero() { app.startTime = time.Now() }
startTimeAfter(startTime) == IF startTime = 0 THEN now ELSE startTime

addKey(w, key, outcome) ==
    IF ~w.app.isActive THEN w
    ELSE
      LET cur == w.app.currentPattern
          testInput == Join(Append(w.app.inputBuffer, key))
      IN  IF ~matches(cur.Pattern, testInput)
          THEN IF Len(w.app.inputBuffer) = 0 THEN w
               ELSE LET position == mistakePosition(testInput, key)
                        expected == getExpectedKey(cur.Pattern, position)
                        w1 == save([w EXCEPT !.stats =
                                  recordMistake(@, cur, position, expected, key)],
                                  outcome)
                    IN  [w1 EXCEPT !.app.resetCount = @ + 1,
                                   !.app.inputBuffer = << >>,
                                   !.app.statusLabel = "expected"]
          ELSE LET a == [w.app EXCEPT
                            !.startTime = startTimeAfter(@),
                            !.inputBuffer = Append(@, key)]
                   w1 == [w EXCEPT !.app = a]
               IN  IF Len(Join(a.inputBuffer)) >= Len(cur.Pattern)
                   THEN finishPattern(
                            [w1 EXCEPT !.hist.log = Append(@, Completing(w1))],
                            outcome)
                   ELSE w1

----------------------------------------------------------------------------
(* Input surface: the callbacks of FullWindowInput *)

KeyEscape == "Escape"
StartKeys == {"Space", "Return", "Enter"}

\* keyNames, restricted to the keys the model presses
keyNames ==
    [name \in {"F1", "Return", "Enter", "Space", "Escape"} |->
        CASE name = "F1" -> <<"F","1">>
          [] name = "Space" -> <<" ">>
          [] name = "Escape" -> <<"E","S","C">>
          [] OTHER -> <<"E","n","t","e","r">>]

\* variant: Escape ends a session whether or not one is running
typedKeyAlwaysStops(w, name, shuffled, outcome) ==
    IF name = KeyEscape THEN stopSession(w, outcome)
    ELSE IF ~w.app.inSession /\ name \in StartKeys
         THEN startSession(w, shuffled, outcome)
    ELSE IF ~w.app.isActive THEN w
    ELSE IF name \in DOMAIN keyNames
            /\ keyNames[name] # <<"E","S","C">>
            /\ keyNames[name] # <<"E","n","t","e","r">>
         THEN addKey(w, keyNames[name], outcome)
    ELSE w

typedKey(w, name, shuffled, outcome) ==
    IF name = KeyEscape /\ w.app.inSession THEN stopSession(w, outcome)
    ELSE IF ~w.app.inSession /\ name \in StartKeys
         THEN startSession(w, shuffled, outcome)
    ELSE IF ~w.app.isActive THEN w
    ELSE IF name \in DOMAIN keyNames
            /\ keyNames[name] # <<"E","S","C">>
            /\ keyNames[name] # <<"E","n","t","e","r">>
         THEN addKey(w, keyNames[name], outcome)
    ELSE w

typedRune(w, r, outcome) ==
    IF ~w.app.isActive THEN w ELSE addKey(w, <<r>>, outcome)

clickKey(button, shift) ==
    CASE button = "Primary" -> IF shift THEN <<"S","L","C">> ELSE <<"L","C">>
      [] button = "Secondary" -> IF shift THEN <<"S","R","C">> ELSE <<"R","C">>
      [] OTHER -> <<"M","C">>

mouseDown(w, button, shift, outcome) ==
    IF ~w.app.isActive THEN w
    ELSE addKey(w, clickKey(button, shift), outcome)

\* the function the goroutine of finishPattern hands to fyne.Do
deferredAdvance(w, i, outcome) ==
    LET w1 == [w EXCEPT !.pending =
                  SubSeq(@, 1, i - 1) \o SubSeq(@, i + 1, Len(@))]
    IN  IF w1.app.inSession THEN nextPattern(w1, outcome) ELSE w1

----------------------------------------------------------------------------
(* The events the model delivers *)

KeyNames == {"Escape", "Space"}
Runes == {"1", "a", "L"}
Buttons == {"Primary", "Secondary"}
Shifts == {FALSE}

\* what the aggregate has recorded so far, over all patterns
RECURSIVE SumAttempts(_, _)
SumAttempts(st, S) ==
    IF S = {} THEN 0
    ELSE LET p == CHOOSE q \in S : TRUE
         IN  st.PatternStats[p].TotalAttempts + SumAttempts(st, S \ {p})

RECURSIVE SumMistakes(_, _)
SumMistakes(st, S) ==
    IF S = {} THEN 0
    ELSE LET p == CHOOSE q \in S : TRUE
         IN  Len(st.PatternStats[p].Mistakes) + SumMistakes(st, S \ {p})

RecordedAttempts(st) == SumAttempts(st, DOMAIN st.PatternStats)
RecordedMistakes(st) == SumMistakes(st, DOMAIN st.PatternStats)

WithinBounds(w) ==
    /\ w.hist.session <= MaxSessions
    /\ RecordedAttempts(w.stats) <= MaxAttempts
    /\ RecordedMistakes(w.stats) <= MaxRecordedMistakes
    /\ Len(w.pending) <= MaxPending

Commit(w) ==
    /\ WithinBounds(w)
    /\ app' = w.app
    /\ stats' = w.stats
    /\ disk' = w.disk
    /\ pending' = w.pending
    /\ hist' = w.hist
    /\ UNCHANGED <<now, calls>>

Init ==
    /\ \E list \in PatternLists :
         app = [allPatterns |-> list, patternQueue |-> << >>,
                currentIndex |-> 0, currentPattern |-> NoPattern,
                inputBuffer |-> << >>, isActive |-> FALSE,
                inSession |-> FALSE, startTime |-> 0, resetCount |-> 0,
                sessionPerfect |-> 0, sessionTotal |-> 0,
                sessionStart |-> 0, statusLabel |-> "focus"]
    /\ stats = NoStats
    /\ disk = NoFile
    /\ pending = << >>
    /\ now = 1
    /\ hist = NoHistory
    /\ calls = << >>

\* the outcomes of the write a handler makes, at most one per handler
Healthy == {"ok"}

TypedKeyOn(outcomes) ==
    \E name \in KeyNames, shuffled \in Shuffles(app.allPatterns),
       outcome \in outcomes :
        Commit(typedKey(World, name, shuffled, outcome))

TypedRuneOn(outcomes) ==
    \E r \in Runes, outcome \in outcomes :
        Commit(typedRune(World, r, outcome))

MouseDownOn(outcomes) ==
    \E button \in Buttons, shift \in Shifts, outcome \in outcomes :
        Commit(mouseDown(World, button, shift, outcome))

DeferredAdvanceOn(outcomes) ==
    \E i \in 1..Len(pending), outcome \in outcomes :
        Commit(deferredAdvance(World, i, outcome))

Tick ==
    /\ now < MaxTime
    /\ now' = now + 1
    /\ UNCHANGED <<app, stats, disk, pending, hist, calls>>

\* the trainer on a file system whose writes succeed
TypedKey == TypedKeyOn(Healthy)
TypedRune == TypedRuneOn(Healthy)
MouseDown == MouseDownOn(Healthy)
DeferredAdvance == DeferredAdvanceOn(Healthy)

Next == TypedKey \/ TypedRune \/ MouseDown \/ DeferredAdvance \/ Tick

Spec == Init /\ [][Next]_vars

----------------------------------------------------------------------------
(* The trainer on a file system whose writes can fail: os.WriteFile either  *)
(* fails to open the file or fails after truncating it                      *)

MaxFaultySessions == 1

FaultyTypedKey ==
    TypedKeyOn(SaveOutcomes) /\ hist'.session <= MaxFaultySessions
FaultyTypedRune == TypedRuneOn(SaveOutcomes)
FaultyMouseDown == MouseDownOn(SaveOutcomes)
FaultyDeferredAdvance == DeferredAdvanceOn(SaveOutcomes)

NextFaulty ==
    \/ FaultyTypedKey
    \/ FaultyTypedRune
    \/ FaultyMouseDown
    \/ FaultyDeferredAdvance
    \/ Tick

SpecFaulty == Init /\ [][NextFaulty]_vars

----------------------------------------------------------------------------
(* The trainer with a one-line pattern file and a clock that runs longer,   *)
(* so that one pattern is completed several times with different durations *)

MaxClock == 3

InitSolo ==
    /\ app = [allPatterns |-> <<Click>>, patternQueue |-> << >>,
              currentIndex |-> 0, currentPattern |-> NoPattern,
              inputBuffer |-> << >>, isActive |-> FALSE,
              inSession |-> FALSE, startTime |-> 0, resetCount |-> 0,
              sessionPerfect |-> 0, sessionTotal |-> 0,
              sessionStart |-> 0, statusLabel |-> "focus"]
    /\ stats = NoStats
    /\ disk = NoFile
    /\ pending = << >>
    /\ now = 1
    /\ hist = NoHistory
    /\ calls = << >>

LongTick ==
    /\ now < MaxClock
    /\ now' = now + 1
    /\ UNCHANGED <<app, stats, disk, pending, hist, calls>>

NextSolo == TypedKey \/ TypedRune \/ MouseDown \/ DeferredAdvance \/ LongTick

SpecSolo == InitSolo /\ [][NextSolo]_vars

----------------------------------------------------------------------------
(* Harnesses: the statistics functions called directly on an empty aggregate *)

MaxAttemptCalls == 4
MaxElapsed == 2
MaxResetsArg == 1
MaxMistakeCalls == 102

RecordAttemptCall ==
    \E elapsed \in 0..MaxElapsed, resets \in 0..MaxResetsArg :
        /\ Len(calls) < MaxAttemptCalls
        /\ stats' = recordAttempt(stats, Attack, elapsed, resets)
        /\ calls' = Append(calls, [elapsed |-> elapsed, resets |-> resets])
        /\ UNCHANGED <<app, disk, pending, now, hist>>

SpecAttempts == Init /\ [][RecordAttemptCall]_vars

\* the k-th call reports position k, so that the entries can be told apart
RecordMistakeCall ==
    \E actual \in {<<"R","C">>} :
        /\ Len(calls) < MaxMistakeCalls
        /\ stats' = recordMistake(stats, Attack, Len(calls),
                                  getExpectedKey(Attack.Pattern, 2), actual)
        /\ calls' = Append(calls, [Position |-> Len(calls),
                                   Expected |-> getExpectedKey(Attack.Pattern, 2),
                                   Actual |-> actual, Timestamp |-> now])
        /\ UNCHANGED <<app, disk, pending, now, hist>>

SpecMistakes == Init /\ [][RecordMistakeCall]_vars

\* the tokenizer called directly on the pattern of a one-line pattern file
MaxPieces == 3

\* what the pattern strings of the harness are put together from
Pieces ==
    { <<"S","L","C">>, <<"L","C">>, <<"F","1","0">>, <<"F","1">>,
      <<"S">>, <<"F">>, <<"a">> }

PatternStrings ==
    { Join(q) : q \in UNION { [1..n -> Pieces] : n \in 0..MaxPieces } }

InitTokenizer ==
    /\ \E p \in PatternStrings :
         app = [allPatterns |-> << [Name |-> <<"T">>, Pattern |-> p] >>,
                patternQueue |-> << >>,
                currentIndex |-> 0, currentPattern |-> NoPattern,
                inputBuffer |-> << >>, isActive |-> FALSE,
                inSession |-> FALSE, startTime |-> 0, resetCount |-> 0,
                sessionPerfect |-> 0, sessionTotal |-> 0,
                sessionStart |-> 0, statusLabel |-> "focus"]
    /\ stats = NoStats
    /\ disk = NoFile
    /\ pending = << >>
    /\ now = 1
    /\ hist = NoHistory
    /\ calls = << >>

ExpectedKeyCall ==
    \E charPos \in -1..(Len(app.allPatterns[1].Pattern) + 1) :
        /\ calls = << >>
        /\ calls' = << [charPos |-> charPos,
                        key |-> getExpectedKey(app.allPatterns[1].Pattern,
                                               charPos)] >>
        /\ UNCHANGED <<app, stats, disk, pending, now, hist>>

SpecTokenizer == InitTokenizer /\ [][ExpectedKeyCall]_vars

----------------------------------------------------------------------------
(* Vocabulary of the properties *)

ActiveTokens == Tokenize(app.currentPattern.Pattern)

\* the keys the callbacks can hand to addKey
InputKeys ==
    {<<r>> : r \in Runes}
      \cup {clickKey(button, shift) : button \in Buttons, shift \in Shifts}
      \cup {keyNames[name] : name \in (KeyNames \cap {"Space", "F1"})}

\* the step in which key is submitted to the match engine
Submit(key) == \E outcome \in Healthy : Commit(addKey(World, key, outcome))

\* the step in which the i-th deferred advance in flight fires
Fire(i) == \E outcome \in Healthy : Commit(deferredAdvance(World, i, outcome))

MistakesOf(st, p) ==
    IF HasStats(st, p) THEN st.PatternStats[p].Mistakes ELSE << >>

\* the token of the active pattern at a 0-based token index
TokenAt(i) ==
    IF i + 1 \in DOMAIN ActiveTokens THEN ActiveTokens[i + 1] ELSE Unknown

Completions == SelectSeq(hist.log, LAMBDA e : e.ev = "complete")
PerfectCompletions == SelectSeq(Completions, LAMBDA e : e.resets = 0)

LastSession == stats.Sessions[Len(stats.Sessions)]

----------------------------------------------------------------------------
(* C1: in every reachable state the typed-so-far buffer, read as a sequence *)
(* of input tokens, is a prefix of the token sequence of the active pattern *)
PrefixInvariant == HasPrefix(ActiveTokens, app.inputBuffer)

(* C2: a session record with completed = true is only written once every    *)
(* pattern of the loaded list has been completed with zero resets in that   *)
(* session                                                                  *)
SessionCompletion ==
    (~app.inSession /\ Len(stats.Sessions) > 0 /\ LastSession.Completed)
      => \A i \in DOMAIN app.allPatterns :
           \E k \in DOMAIN PerfectCompletions :
               PerfectCompletions[k].pat = app.allPatterns[i]

(* C3: a deferred advance whose session was stopped during the delay        *)
(* changes nothing of the application, the statistics or the file when it   *)
(* fires, whatever happened in between                                      *)
DeferredAdvanceGuard ==
    [][\A i \in DOMAIN pending :
          (pending[i] \in hist.stopped /\ Fire(i))
            => UNCHANGED <<app, stats, disk>>]_vars

(* C4: a token submitted on a non-empty buffer that does not extend it to a *)
(* prefix of the active pattern's tokens records exactly one mistake, with  *)
(* position = number of tokens in the buffer, expected = the pattern's      *)
(* token there and actual = the token; the reset counter grows by one, the  *)
(* buffer is emptied and the pattern stays active                           *)
ResetCorrectness ==
    [][\A key \in InputKeys :
          (/\ Submit(key)
           /\ app.isActive
           /\ app.inputBuffer # << >>
           /\ ~HasPrefix(ActiveTokens, Append(app.inputBuffer, key)))
            => LET p == app.currentPattern.Pattern
                   n == Len(app.inputBuffer)
               IN  /\ MistakesOf(stats', p)
                        = Append(MistakesOf(stats, p),
                                 [Position |-> n, Expected |-> TokenAt(n),
                                  Actual |-> key, Timestamp |-> now])
                   /\ app'.resetCount = app.resetCount + 1
                   /\ app'.inputBuffer = << >>
                   /\ app'.isActive
                   /\ app'.currentPattern = app.currentPattern]_vars

(* C5: a token that is not the first token of the active pattern, submitted *)
(* on an empty buffer, leaves the application, the statistics and the file  *)
(* unchanged                                                                *)
FirstKeystrokeTolerance ==
    [][\A key \in InputKeys :
          (/\ Submit(key)
           /\ app.isActive
           /\ app.inputBuffer = << >>
           /\ key # TokenAt(0))
            => UNCHANGED <<app, stats, disk>>]_vars

(* C6: a pattern completed with resets is appended once to the tail of the  *)
(* working queue and, within that session, becomes active again only after  *)
(* every pattern then pending has been made active; a pattern completed     *)
(* without resets leaves the queue unchanged                                *)
RequeueStep ==
    \A key \in InputKeys :
        (Submit(key) /\ app.isActive /\ ~app'.isActive)
          => app'.patternQueue =
                 IF app.resetCount > 0
                 THEN Append(app.patternQueue, app.currentPattern)
                 ELSE app.patternQueue

ReactivatedInTurn ==
    \A i \in DOMAIN hist.log : \A j \in DOMAIN hist.log :
        (/\ i < j
         /\ hist.log[i].ev = "complete"
         /\ hist.log[i].resets > 0
         /\ hist.log[j].ev = "activate"
         /\ hist.log[j].pat = hist.log[i].pat)
          => \A q \in DOMAIN hist.log[i].queue :
                 \E k \in DOMAIN hist.log :
                     /\ i < k
                     /\ k < j
                     /\ hist.log[k].ev = "activate"
                     /\ hist.log[k].pat = hist.log[i].queue[q]

RequeueOrder == []ReactivatedInTurn /\ [][RequeueStep]_vars

\* a pattern completed with resets while another was pending is active again
RequeuedAndRetried ==
    \E i \in DOMAIN hist.log : \E j \in DOMAIN hist.log :
        /\ i < j
        /\ hist.log[i].ev = "complete"
        /\ hist.log[i].resets > 0
        /\ hist.log[i].queue # << >>
        /\ hist.log[j].ev = "activate"
        /\ hist.log[j].pat = hist.log[i].pat
        /\ app.isActive
        /\ app.currentPattern = hist.log[i].pat

(* C7: at every point of a session, and in the record written when it ends, *)
(* patternsTotal is the number of completions of that session and           *)
(* patternsPerfect the number of those with zero resets                     *)
SessionCounters ==
    /\ app.sessionTotal = Len(Completions)
    /\ app.sessionPerfect = Len(PerfectCompletions)
    /\ app.sessionPerfect <= app.sessionTotal
    /\ (~app.inSession /\ hist.session > 0)
         => /\ LastSession.PatternsTotal = Len(Completions)
            /\ LastSession.PatternsPerfect = Len(PerfectCompletions)

\* a session stopped after one perfect and one imperfect completion
CountersAtStop ==
    /\ ~app.inSession
    /\ hist.session \in hist.stopped
    /\ Len(Completions) = 2
    /\ Len(PerfectCompletions) = 1
    /\ LastSession.PatternsTotal = 2
    /\ LastSession.PatternsPerfect = 1
    /\ ~LastSession.Completed

----------------------------------------------------------------------------
(* The statistics of the pattern the harnesses record for *)

Row == stats.PatternStats[Attack.Pattern]

BestTimeOf(st) ==
    IF HasStats(st, Attack.Pattern)
    THEN st.PatternStats[Attack.Pattern].BestTime ELSE 0

\* the number of zero-reset attempts at the end of a sequence of attempts
RECURSIVE TrailingPerfect(_)
TrailingPerfect(attempts) ==
    IF attempts = << >> \/ attempts[Len(attempts)].resets # 0 THEN 0
    ELSE 1 + TrailingPerfect(SubSeq(attempts, 1, Len(attempts) - 1))

MaxOf(S) == CHOOSE x \in S : \A y \in S : y <= x

(* C8: the stored best time changes only on an attempt with zero resets,    *)
(* and then only from absent to the first perfect time or to a value        *)
(* strictly below the previous best, for any elapsed values, zero included  *)
BestTimeMonotone ==
    [][BestTimeOf(stats') # BestTimeOf(stats)
         => LET call == calls'[Len(calls')]
                hadPerfect == \E k \in DOMAIN calls : calls[k].resets = 0
            IN  /\ call.resets = 0
                /\ IF hadPerfect
                   THEN BestTimeOf(stats') < BestTimeOf(stats)
                   ELSE BestTimeOf(stats') = call.elapsed]_vars

(* C9: the current streak is the length of the longest suffix of zero-reset *)
(* attempts, and the best streak is the largest value the current streak    *)
(* has had                                                                  *)
StreakSemantics ==
    calls # << >>
      => /\ Row.CurrentStreak = TrailingPerfect(calls)
         /\ Row.BestStreak =
              MaxOf({TrailingPerfect(SubSeq(calls, 1, n)) : n \in DOMAIN calls})

\* the attempts of the example: resets 0, 0, 1, 0
StreakExample ==
    /\ Len(calls) = 4
    /\ [k \in 1..4 |-> calls[k].resets] = <<0, 0, 1, 0>>
    /\ Row.CurrentStreak = 1
    /\ Row.BestStreak = 2

(* C10: the mistake list holds at most 100 entries, the most recent         *)
(* min(n, 100) recorded mistakes, oldest first                              *)
MostRecentKept == 100

MistakeRingBound ==
    LET list == MistakesOf(stats, Attack.Pattern)
        n == Len(calls)
        k == IF n < MostRecentKept THEN n ELSE MostRecentKept
    IN  /\ Len(list) <= MostRecentKept
        /\ list = SubSeq(calls, n - k + 1, n)


\* two mistakes more than the list keeps have been recorded
RingOverflowed ==
    /\ Len(calls) = MostRecentKept + 2
    /\ Len(Row.Mistakes) = MostRecentKept
    /\ Row.Mistakes[1].Position = 2
    /\ Row.Mistakes[MostRecentKept].Position = MostRecentKept + 1

----------------------------------------------------------------------------
\* the step in which the abort signal (Escape) is delivered
Abort ==
    \E shuffled \in Shuffles(app.allPatterns), outcome \in Healthy :
        Commit(typedKey(World, KeyEscape, shuffled, outcome))

(* C11: an abort while a session is running, whatever the buffer holds,     *)
(* appends exactly one session record, with completed = false and the       *)
(* session counters of that moment, and changes neither the statistics of   *)
(* any pattern nor the session counters                                     *)
StopRecordsNoAttempt ==
    [][(Abort /\ app.inSession)
         => /\ ~app'.inSession
            /\ stats'.Sessions =
                 Append(stats.Sessions,
                        [StartTime |-> app.sessionStart, EndTime |-> now,
                         Duration |-> now - app.sessionStart,
                         PatternsTotal |-> app.sessionTotal,
                         PatternsPerfect |-> app.sessionPerfect,
                         Completed |-> FALSE])
            /\ stats'.PatternStats = stats.PatternStats
            /\ app'.sessionTotal = app.sessionTotal
            /\ app'.sessionPerfect = app.sessionPerfect]_vars

\* a session stopped while the active pattern was partly typed
StoppedMidEntry ==
    /\ ~app.inSession
    /\ hist.session \in hist.stopped
    /\ app.inputBuffer # << >>
    /\ Len(hist.log) > 0
    /\ hist.log[Len(hist.log)].ev = "activate"
    /\ ~LastSession.Completed
    /\ LastSession.PatternsTotal = app.sessionTotal

(* C12: while no pattern accepts input (before the first session, after a   *)
(* session has ended, during the delay before the advance) every character, *)
(* function key and click, and while no session is running the abort        *)
(* signal, leaves the application, the statistics, the file and the         *)
(* advances in flight exactly as they were                                  *)
InvalidInputIgnored ==
    \A outcome \in SaveOutcomes, shuffled \in Shuffles(app.allPatterns) :
        /\ ~app.isActive =>
              /\ \A r \in Runes : typedRune(World, r, outcome) = World
              /\ \A button \in Buttons \cup {"Tertiary"}, shift \in BOOLEAN :
                     mouseDown(World, button, shift, outcome) = World
              /\ \A name \in DOMAIN keyNames \ {KeyEscape} :
                     (app.inSession \/ name \notin StartKeys)
                       => typedKey(World, name, shuffled, outcome) = World
        /\ ~app.inSession =>
              typedKey(World, KeyEscape, shuffled, outcome) = World

\* a completion is waiting for its advance, and a click changes nothing
IgnoredDuringDelay ==
    /\ app.inSession
    /\ ~app.isActive
    /\ pending # << >>
    /\ Join(app.inputBuffer) = app.currentPattern.Pattern
    /\ mouseDown(World, "Primary", FALSE, "ok") = World
    /\ typedRune(World, "a", "ok") = World

\* the step in which a begin-session key is delivered
Begin(name) ==
    \E shuffled \in Shuffles(app.allPatterns), outcome \in Healthy :
        Commit(typedKey(World, name, shuffled, outcome))

(* C13: Space, Return or Enter pressed while a session is running changes   *)
(* nothing: the queue is not reshuffled, the session counters are not       *)
(* reset, and the buffer, the reset counter and the recorded mistakes of    *)
(* the active pattern stay as they were                                     *)
BeginWhileRunning ==
    [][\A name \in StartKeys :
          (Begin(name) /\ app.inSession)
            => /\ app'.inSession
               /\ app'.patternQueue = app.patternQueue
               /\ app'.currentPattern = app.currentPattern
               /\ app'.sessionTotal = app.sessionTotal
               /\ app'.sessionPerfect = app.sessionPerfect
               /\ app'.sessionStart = app.sessionStart
               /\ app'.inputBuffer = app.inputBuffer
               /\ app'.resetCount = app.resetCount
               /\ stats'.PatternStats = stats.PatternStats
               /\ stats'.Sessions = stats.Sessions]_vars

----------------------------------------------------------------------------
(* The tokenizer harness: the pattern looked up, and the token of its scan  *)
(* whose characters cover a 0-based offset inside the string                *)
Looked == app.allPatterns[1].Pattern

RECURSIVE Occupant(_, _)
Occupant(pattern, offset) ==
    LET tok == scanToken(pattern)
    IN  IF offset < Len(tok) THEN tok
        ELSE Occupant(From(pattern, Len(tok)), offset - Len(tok))

(* C14: getExpectedKey returns the token occupying the offset whenever      *)
(* 0 <= offset < length of the pattern, and "?" exactly when the offset is  *)
(* outside the string                                                       *)
OffsetLookup ==
    \A k \in DOMAIN calls :
        IF 0 <= calls[k].charPos /\ calls[k].charPos < Len(Looked)
        THEN calls[k].key = Occupant(Looked, calls[k].charPos)
        ELSE calls[k].key = Unknown

\* the offsets at which the scan of getExpectedKey starts a token
Starts == {i \in 0..(Len(Looked) - 1) : getExpectedKey(Looked, i) # Unknown}

\* the token vocabulary, whatever the order it is listed in
Vocabulary == {tokens[k] : k \in DOMAIN tokens}

\* the longest vocabulary token the text from offset i on begins with, the
\* single character at i when there is none
LongestAt(i) ==
    LET fits == {t \in Vocabulary : HasPrefix(From(Looked, i), t)}
    IN  IF fits = {} THEN <<Looked[i + 1]>>
        ELSE CHOOSE t \in fits : \A u \in fits : Len(u) <= Len(t)

(* C15: the scan of getExpectedKey splits every pattern string into tokens  *)
(* so that every character position lies in exactly one token, each token   *)
(* is the text at its place (the tokens concatenated give the string), and  *)
(* each token is the longest vocabulary token the remaining text begins     *)
(* with, a single character when there is none                              *)
LongestMatchScan ==
    /\ \A j \in 0..(Len(Looked) - 1) :
           Cardinality({i \in Starts :
                          i <= j /\ j < i + Len(getExpectedKey(Looked, i))}) = 1
    /\ \A i \in Starts :
           LET tok == getExpectedKey(Looked, i)
           IN  /\ SubSeq(Looked, i + 1, i + Len(tok)) = tok
               /\ tok = LongestAt(i)
    /\ Join(Tokenize(Looked)) = Looked
    /\ \A k \in DOMAIN calls :
           calls[k].charPos \in Starts
             => calls[k].key = LongestAt(calls[k].charPos)

\* SLC and F10 have each been looked up as one token of the same pattern
LongTokensFound ==
    /\ Looked = <<"S","L","C","F","1","0","a">>
    /\ Starts = {0, 3, 6}
    /\ calls = << [charPos |-> 3, key |-> <<"F","1","0">>] >>
    /\ getExpectedKey(Looked, 0) = <<"S","L","C">>

----------------------------------------------------------------------------
\* what a handler leaves in memory
Memory(w) == [app |-> w.app, stats |-> w.stats, pending |-> w.pending]

\* every handler leaves in memory what it leaves when its save succeeds
InMemoryAsIfSaved ==
    \A outcome \in SaveOutcomes :
        /\ \A name \in KeyNames, shuffled \in Shuffles(app.allPatterns) :
               Memory(typedKey(World, name, shuffled, outcome))
                 = Memory(typedKey(World, name, shuffled, "ok"))
        /\ \A r \in Runes :
               Memory(typedRune(World, r, outcome))
                 = Memory(typedRune(World, r, "ok"))
        /\ \A button \in Buttons, shift \in Shifts :
               Memory(mouseDown(World, button, shift, outcome))
                 = Memory(mouseDown(World, button, shift, "ok"))
        /\ \A i \in DOMAIN pending :
               Memory(deferredAdvance(World, i, outcome))
                 = Memory(deferredAdvance(World, i, "ok"))

\* the file is left as it was or holds the whole aggregate of the moment
DurableStep ==
    \/ disk' = disk
    \/ disk' = [kind |-> "document", doc |-> stats']

(* C16: a failed save neither aborts the session nor changes what is kept   *)
(* in memory; after every save, failed or not, the file holds the previous  *)
(* document or the complete current aggregate                               *)
PersistenceFailure == []InMemoryAsIfSaved /\ [][DurableStep]_vars

----------------------------------------------------------------------------
\* the step loads a pattern as the active one (nextPattern)
Loads ==
    /\ hist'.log # hist.log \/ hist'.session # hist.session
    /\ hist'.log # << >>
    /\ hist'.log[Len(hist'.log)].ev = "activate"

\* the step is a key accepted by the match engine: the buffer grows by it
Accepts ==
    /\ app.isActive
    /\ \E key \in InputKeys : app'.inputBuffer = Append(app.inputBuffer, key)

TotalTimeOf(st, p) ==
    IF HasStats(st, p) THEN st.PatternStats[p].TotalTime ELSE 0

(* C17: the start time is unset when a pattern is loaded, is set to the     *)
(* time of the first accepted key after the load, is left alone by ignored  *)
(* keys, resets and later accepted keys, and the elapsed time recorded at   *)
(* completion is the time since that first accepted key                     *)
TimerSemantics ==
    [][IF Loads THEN app'.startTime = 0
       ELSE IF Accepts
       THEN /\ app'.startTime =
                 IF app.startTime = 0 THEN now ELSE app.startTime
            /\ ~app'.isActive
                 => TotalTimeOf(stats', app.currentPattern.Pattern)
                      = TotalTimeOf(stats, app.currentPattern.Pattern)
                          + (now - app'.startTime)
       ELSE app'.startTime = app.startTime]_vars

\* a pattern completed after a reset, one tick after its first accepted key
TimedAcrossReset ==
    /\ app.inSession
    /\ ~app.isActive
    /\ app.resetCount = 1
    /\ app.startTime = 1
    /\ now = 2
    /\ hist.log[Len(hist.log)].ev = "complete"
    /\ TotalTimeOf(stats, app.currentPattern.Pattern) = 1

----------------------------------------------------------------------------
\* the step completes the active pattern (finishPattern has run)
Completes ==
    /\ Len(hist'.log) = Len(hist.log) + 1
    /\ hist'.log[Len(hist'.log)].ev = "complete"

\* a perfect attempt at the active pattern has been recorded before
HadBest ==
    /\ HasStats(stats, app.currentPattern.Pattern)
    /\ stats.PatternStats[app.currentPattern.Pattern].PerfectCount > 0

(* C18: a completion shows "new best" exactly when it has zero resets and   *)
(* either no best time was recorded before or its elapsed time is strictly  *)
(* below the recorded best; an equal or longer time, and any completion     *)
(* with resets, is not flagged                                              *)
NewBestFlag ==
    [][Completes
         => LET elapsed == now - app'.startTime
                p == app.currentPattern.Pattern
            IN  (app'.statusLabel = "newbest")
                  <=> /\ app.resetCount = 0
                      /\ \/ ~HadBest
                         \/ elapsed < stats.PatternStats[p].BestTime]_vars

----------------------------------------------------------------------------
RECURSIVE SumDurations(_)
SumDurations(records) ==
    IF records = << >> THEN 0
    ELSE Head(records).Duration + SumDurations(Tail(records))

\* one record for each session that has ended, and the totals add up
RecordsInv ==
    /\ Len(stats.Sessions) = hist.session - (IF app.inSession THEN 1 ELSE 0)
    /\ stats.TotalSessions = Len(stats.Sessions)
    /\ stats.TotalTrainTime = SumDurations(stats.Sessions)

\* a record is appended in the step that ends a session and in no other
RecordsStep ==
    IF app.inSession /\ ~app'.inSession
    THEN LET n == Len(stats.Sessions)
         IN  /\ Len(stats'.Sessions) = n + 1
             /\ SubSeq(stats'.Sessions, 1, n) = stats.Sessions
             /\ stats'.Sessions[n + 1].StartTime = app.sessionStart
             /\ stats'.Sessions[n + 1].EndTime = now
             /\ stats'.TotalSessions = stats.TotalSessions + 1
             /\ stats'.TotalTrainTime =
                  stats.TotalTrainTime + stats'.Sessions[n + 1].Duration
    ELSE /\ stats'.Sessions = stats.Sessions
         /\ stats'.TotalSessions = stats.TotalSessions
         /\ stats'.TotalTrainTime = stats.TotalTrainTime

(* C19: every started session appends exactly one session record, in the   *)
(* step in which it ends and in no other; each append adds 1 to the session *)
(* count and the record's duration to the train time, so the count is the   *)
(* number of records and the train time the sum of their durations; the     *)
(* records already there are never changed or removed                       *)
SessionRecords == []RecordsInv /\ [][RecordsStep]_vars

\* one session ended by completion and one by stop, one of them a tick long
TwoSessionsRecorded ==
    /\ ~app.inSession
    /\ hist.session = 2
    /\ Len(stats.Sessions) = 2
    /\ stats.Sessions[1].Completed
    /\ ~stats.Sessions[2].Completed
    /\ stats.Sessions[1].Duration = 1
    /\ stats.TotalTrainTime = 1

----------------------------------------------------------------------------
\* within a session a load and a completion take turns, pattern by pattern
TakeTurns ==
    \A k \in DOMAIN hist.log :
        IF k % 2 = 1 THEN hist.log[k].ev = "activate"
        ELSE /\ hist.log[k].ev = "complete"
             /\ hist.log[k].pat = hist.log[k - 1].pat

\* a load inside a running session replaces a completed pattern by the head
\* of the queue
SwapStep ==
    (app.inSession /\ hist'.session = hist.session /\ Loads)
      => /\ ~app.isActive
         /\ hist.log # << >>
         /\ hist.log[Len(hist.log)].ev = "complete"
         /\ hist.log[Len(hist.log)].pat = app.currentPattern
         /\ app'.currentPattern = Head(app.patternQueue)
         /\ app'.patternQueue = Tail(app.patternQueue)

(* C20: while a session runs the active pattern is replaced by the head of  *)
(* the queue only after it has been completed, a pattern that still accepts *)
(* input is never swapped out, and a completion is followed by one advance  *)
(* only, whatever the order of inputs, stops, starts and deferred advances  *)
NoPatternSkipped == []TakeTurns /\ [][SwapStep]_vars

----------------------------------------------------------------------------
(* The trainer with a user who never aborts: pattern files with and without *)
(* a line "N|", whose pattern is the empty string                           *)

MaxProgressSessions == 1

\* the Pattern loadPatternsFromFile builds from the line "N|"
Blank == [Name |-> <<"N">>, Pattern |-> << >>]

ProgressLists == { <<Click>>, <<Click, Blank>> }

ProgressRunes == {"1", "a"}

InitProgress ==
    /\ \E list \in ProgressLists :
         app = [allPatterns |-> list, patternQueue |-> << >>,
                currentIndex |-> 0, currentPattern |-> NoPattern,
                inputBuffer |-> << >>, isActive |-> FALSE,
                inSession |-> FALSE, startTime |-> 0, resetCount |-> 0,
                sessionPerfect |-> 0, sessionTotal |-> 0,
                sessionStart |-> 0, statusLabel |-> "focus"]
    /\ stats = NoStats
    /\ disk = NoFile
    /\ pending = << >>
    /\ now = 1
    /\ hist = NoHistory
    /\ calls = << >>

\* Space pressed while no session runs
UserBegins ==
    /\ ~app.inSession
    /\ hist.session < MaxProgressSessions
    /\ \E shuffled \in Shuffles(app.allPatterns) :
           Commit(typedKey(World, "Space", shuffled, "ok"))

\* the key extends the buffer to a prefix of the active pattern
Extends(key) ==
    matches(app.currentPattern.Pattern, Join(Append(app.inputBuffer, key)))

\* the user presses a key or clicks; fits tells whether the input is one
\* the match engine accepts
UserInput(fits) ==
    \/ \E r \in ProgressRunes :
          /\ Extends(<<r>>) = fits
          /\ Commit(typedRune(World, r, "ok"))
    \/ \E button \in Buttons :
          /\ Extends(clickKey(button, FALSE)) = fits
          /\ Commit(mouseDown(World, button, FALSE, "ok"))

UserTypesNext == app.isActive /\ UserInput(TRUE)
UserSlips == app.isActive /\ UserInput(FALSE)

NextProgress ==
    UserBegins \/ UserTypesNext \/ UserSlips \/ DeferredAdvance \/ Tick

\* the user keeps submitting the next token, and the goroutine started by
\* finishPattern wakes up after its 400 ms and its callback runs
SpecProgress ==
    /\ InitProgress
    /\ [][NextProgress]_vars
    /\ WF_vars(UserTypesNext)
    /\ WF_vars(DeferredAdvance)

(* C21: for every pattern list the file can yield, the line "N|" with an    *)
(* empty pattern included, a running session in which no abort is issued,   *)
(* the user keeps submitting the next token and every deferred advance      *)
(* fires, eventually ends as completed                                      *)
SessionEventuallyCompleted ==
    app.inSession
      ~> (~app.inSession /\ Len(stats.Sessions) > 0 /\ LastSession.Completed)

----------------------------------------------------------------------------
(* Display: formatForDisplay, called directly on the pattern of a one-line  *)
(* pattern file.  A character outside ASCII is written as its code point.   *)

\* strings.ReplaceAll(s, old, new) for a non-empty old
RECURSIVE ReplaceAll(_, _, _)
ReplaceAll(s, old, new) ==
    IF s = << >> THEN << >>
    ELSE IF HasPrefix(s, old)
         THEN new \o ReplaceAll(From(s, Len(old)), old, new)
         ELSE <<Head(s)>> \o ReplaceAll(Tail(s), old, new)

\* the token list formatForDisplay ranges over
displayTokens ==
    << <<"S","L","C">>, <<"S","R","C">>,
       <<"F","1","0">>, <<"F","1","1">>, <<"F","1","2">>,
       <<"L","C">>, <<"R","C">>, <<"M","C">>,
       <<"F","1">>, <<"F","2">>, <<"F","3">>, <<"F","4">>, <<"F","5">>,
       <<"F","6">>, <<"F","7">>, <<"F","8">>, <<"F","9">> >>

displayIcons(token) ==
    CASE token = <<"L","C">> -> <<"U+201A", "U+00F3", "U+00EA">>
      [] token = <<"R","C">> -> <<"U+201A", "U+00F3", "U+00EB">>
      [] token = <<"M","C">> -> <<"U+201A", "U+00F3", "U+00E2">>
      [] token = <<"S","L","C">> ->
            <<"U+201A", "U+00E1", "U+00DF", "U+201A", "U+00F3", "U+00EA">>
      [] token = <<"S","R","C">> ->
            <<"U+201A", "U+00E1", "U+00DF", "U+201A", "U+00F3", "U+00EB">>
      [] OTHER -> <<"[">> \o token \o <<"]">>

\* the loop of formatForDisplay from the k-th token of the list on
RECURSIVE replaceFrom(_, _)
replaceFrom(result, k) ==
    IF k > Len(displayTokens) THEN result
    ELSE replaceFrom(ReplaceAll(result, displayTokens[k],
                                displayIcons(displayTokens[k])), k + 1)

formatForDisplay(s) == replaceFrom(s, 1)

FormatCall ==
    /\ calls = << >>
    /\ calls' = << [shown |-> formatForDisplay(app.allPatterns[1].Pattern)] >>
    /\ UNCHANGED <<app, stats, disk, pending, now, hist>>

SpecDisplay == InitTokenizer /\ [][FormatCall]_vars

\* the tokens of the scan, each as its icon, or as itself when it has none
RECURSIVE Rendered(_)
Rendered(toks) ==
    IF toks = << >> THEN << >>
    ELSE (IF Head(toks) \in Vocabulary THEN displayIcons(Head(toks))
          ELSE Head(toks)) \o Rendered(Tail(toks))

(* C22: what formatForDisplay returns for a pattern string is the           *)
(* concatenation, token by token of its longest-match tokenization, of the  *)
(* token's icon, or of the token itself for a single character; F10, F11    *)
(* and F12 are each shown as their own bracketed icon                       *)
DisplayAgreesWithTokenizer ==
    \A k \in DOMAIN calls : calls[k].shown = Rendered(Tokenize(Looked))

====
